---- MODULE Spec2Model ----
(***************************************************************************)
(* PacToPac (src/main.py): the package catalog of the PkgMan window, its   *)
(* worker threads (full load, status reconciliation, AUR search, AUR       *)
(* count), the GLib idle queue that hands their results to the GTK main    *)
(* thread, and the filter / rank / paginate pipeline of refresh_list.      *)
(*                                                                         *)
(* A package is the tuple the code builds: <<name, repo, installed, type>> *)
(* for pacman and AUR, <<name, repo, installed, type, app_id>> for         *)
(* Flatpak.  Names and search texts are sequences of one-character         *)
(* strings so that lower(), substring and SequenceMatcher are computed.    *)
(***************************************************************************)
EXTENDS Integers, Sequences, FiniteSets, Bags, TLC

(* ------------------------------------------------------------------ *)
(* Bounds of the model                                                  *)
(* ------------------------------------------------------------------ *)

\* page sizes tried: page_size is drawn from 1..MaxPageSize
MaxPageSize ==
    2

\* worker threads (load, update, search) alive at the same time
MaxThreads ==
    2

\* callbacks waiting in the GLib idle queue
MaxIdle ==
    2

\* child processes of run_cmd alive at the same time
MaxChildren ==
    1

\* rows one list box may hold (a refresh at current_page > 0 only appends)
MaxRows ==
    5

\* pending GLib timeouts for update_package_status
MaxTimers ==
    1

\* commands the user runs from the action button in one session
MaxCommands ==
    2

\* times the user flips the AUR switch in one session
MaxToggles ==
    2

\* times the user edits the search entry in one session
MaxSearches ==
    3

(* ------------------------------------------------------------------ *)
(* Strings                                                              *)
(* ------------------------------------------------------------------ *)

s_ab ==
    <<"a", "b">>

s_bc ==
    <<"b", "c">>

s_abc ==
    <<"a", "b", "c">>

s_c ==
    <<"c">>

s_Ab ==
    <<"A", "b">>

\* "Ab" with a blank typed behind it
s_Ab_sp ==
    <<"A", "b", " ">>

\* str.lower() on one character
LowerChar(ch) ==
    IF ch = "A" THEN "a" ELSE IF ch = "B" THEN "b" ELSE IF ch = "C" THEN "c" ELSE ch

\* str.lower()
Lower(s) ==
    [i \in 1..Len(s) |-> LowerChar(s[i])]

\* str.strip(): leading and trailing blanks removed
RECURSIVE Strip(_)
Strip(s) ==
    IF s = <<>> THEN <<>>
    ELSE IF s[1] = " " THEN Strip(Tail(s))
    ELSE IF s[Len(s)] = " " THEN Strip(SubSeq(s, 1, Len(s) - 1))
    ELSE s

\* the Python operator `a in b` on strings
IsSubstring(a, b) ==
    \E i \in 0..(Len(b) - Len(a)) : SubSeq(b, i + 1, i + Len(a)) = a

(* difflib.SequenceMatcher: find_longest_match(alo, ahi, blo, bhi) returns  *)
(* the longest block a[i:i+k] = b[j:j+k], the one starting earliest in a    *)
(* and, among those, earliest in b (0-based, half-open ranges).             *)
MatchLen(a, b, i, j, ahi, bhi) ==
    LET Ks == {k \in 0..(IF ahi - i < bhi - j THEN ahi - i ELSE bhi - j) :
                   \A d \in 0..(k - 1) : a[i + d + 1] = b[j + d + 1]}
    IN  CHOOSE k \in Ks : \A k2 \in Ks : k2 <= k

\* the best of the candidate blocks, `size` giving the length of the block
\* that starts at each <<i, j>>
BestBlock(size, alo, blo) ==
    LET Cands == {c \in DOMAIN size : size[c] > 0}
        Better(c, d) == \/ size[c] > size[d]
                        \/ size[c] = size[d] /\ c[1] < d[1]
                        \/ size[c] = size[d] /\ c[1] = d[1] /\ c[2] <= d[2]
    IN  IF Cands = {} THEN <<alo, blo, 0>>
        ELSE LET best == CHOOSE c \in Cands : \A d \in Cands : Better(c, d)
             IN  <<best[1], best[2], size[best]>>

FindLongestMatch(a, b, alo, ahi, blo, bhi) ==
    BestBlock([c \in (alo..(ahi - 1)) \X (blo..(bhi - 1)) |->
                  MatchLen(a, b, c[1], c[2], ahi, bhi)], alo, blo)

\* get_matching_blocks(): the summed size of the blocks, found recursively
\* to the left and to the right of the longest one `m`
RECURSIVE MatchingSize(_, _, _, _, _, _)
RECURSIVE BlocksAround(_, _, _, _, _, _, _)
BlocksAround(a, b, alo, ahi, blo, bhi, m) ==
    IF m[3] = 0 THEN 0
    ELSE m[3] + MatchingSize(a, b, alo, m[1], blo, m[2])
              + MatchingSize(a, b, m[1] + m[3], ahi, m[2] + m[3], bhi)

MatchingSize(a, b, alo, ahi, blo, bhi) ==
    IF alo >= ahi \/ blo >= bhi THEN 0
    ELSE BlocksAround(a, b, alo, ahi, blo, bhi, FindLongestMatch(a, b, alo, ahi, blo, bhi))

\* SequenceMatcher(None, a, b).ratio() = 2.0 * matches / (len(a) + len(b)),
\* kept as the exact fraction <<numerator, denominator>>; 1.0 for two
\* empty strings
Ratio(a, b) ==
    IF Len(a) + Len(b) = 0 THEN <<1, 1>>
    ELSE <<2 * MatchingSize(a, b, 0, Len(a), 0, Len(b)), Len(a) + Len(b)>>

\* score x >= score y, on fractions
ScoreGeq(x, y) ==
    x[1] * y[2] >= y[1] * x[2]

\* similarity > threshold: a score equal to the threshold does not pass
AboveThreshold(score, threshold) ==
    score[1] * 100 > threshold * score[2]

\* similarity >= self.fuzzy_threshold, the threshold in hundredths
\* (the SpinRow shows two digits)
AtLeastThreshold(score, threshold) ==
    score[1] * 100 >= threshold * score[2]

(* ------------------------------------------------------------------ *)
(* The outside world: what the external tools print                     *)
(* ------------------------------------------------------------------ *)

\* `pacman -Sl`: one line "repo name version" per package of the sync
\* databases, here as <<repo, name>>
RepoListing ==
    << <<"core", s_ab>> >>

\* `flatpak remote-ls --app flathub`: "name<TAB>application<TAB>version",
\* here as <<name, application>>; the display name is not the application ID
FlathubListing ==
    << <<s_bc, "org.bc">> >>

\* foreign packages `grimaur list` can print, in the order it prints them
AurListing ==
    <<s_abc, s_bc>>

\* `grimaur --no-color search term`: the package names of the numbered
\* result lines, in the order printed
AurSearchOutput(term) ==
    IF term = s_Ab THEN <<s_abc, s_c>>
    ELSE IF term = s_bc THEN <<s_bc, s_abc>>
    ELSE <<>>

\* texts the user can have in the search entry
SearchTexts ==
    {<<>>, s_Ab, s_Ab_sp, s_bc}

\* values of the fuzzy threshold SpinRow, in hundredths
Thresholds ==
    {40, 80}

Tabs ==
    {"installed", "available", "flatpak", "aur", "all"}

RepoNames ==
    {RepoListing[i][2] : i \in 1..Len(RepoListing)}

FlatpakIds ==
    {FlathubListing[i][2] : i \in 1..Len(FlathubListing)}

AurNames ==
    {AurListing[i] : i \in 1..Len(AurListing)}

(* ------------------------------------------------------------------ *)
(* Sequence helpers                                                     *)
(* ------------------------------------------------------------------ *)

Range(s) ==
    {s[i] : i \in 1..Len(s)}

Reverse(s) ==
    [i \in 1..Len(s) |-> s[Len(s) + 1 - i]]

\* Python slice s[lo:hi] with 0 <= lo, 0 <= hi
Slice(s, lo, hi) ==
    LET h == IF hi > Len(s) THEN Len(s) ELSE hi
    IN  IF lo >= h THEN <<>> ELSE SubSeq(s, lo + 1, h)

Min(a, b) ==
    IF a < b THEN a ELSE b

(* ------------------------------------------------------------------ *)
(* load_packages.load: the catalog one full load builds                 *)
(* ------------------------------------------------------------------ *)

\* what can go wrong in one full load (one fault at a time)
LoadFaults ==
    {"none", "pacman-Sl", "pacman-Q", "flatpak", "aur"}

\* lines 1362-1369: every line of `pacman -Sl`, installed when the name is
\* in the output of `pacman -Q` (run without check: a failure gives no names)
PacmanRecords(listing, installed) ==
    LET rec(l) == <<l[2], l[1], l[2] \in installed, "pacman">>
    IN  [i \in 1..Len(listing) |-> rec(listing[i])]

LoadPacman(env_p, fault) ==
    PacmanRecords(RepoListing, IF fault = "pacman-Q" THEN {} ELSE env_p)

\* lines 1371-1385: only when check_fp() and check_fh() pass and neither
\* flatpak command fails
FlatpakRecords(listing, installed_ids) ==
    LET rec(l) == <<l[1], "flathub", l[2] \in installed_ids, "flatpak", l[2]>>
    IN  [i \in 1..Len(listing) |-> rec(listing[i])]

LoadFlatpak(env_f, fault) ==
    IF fault = "flatpak" THEN <<>> ELSE FlatpakRecords(FlathubListing, env_f)

\* lines 1387-1424: one installed record per line of `grimaur list`
LoadAur(env_a, fault, aur_on) ==
    LET rec(n) == <<n, "aur", TRUE, "aur">>
    IN  IF ~aur_on \/ fault = "aur" THEN <<>>
        ELSE LET listed == SelectSeq(AurListing, LAMBDA n : n \in env_a)
             IN  [i \in 1..Len(listed) |-> rec(listed[i])]

\* the list handed to update_list
LoadResult(env_p, env_f, env_a, fault, aur_on) ==
    LoadPacman(env_p, fault) \o LoadFlatpak(env_f, fault) \o LoadAur(env_a, fault, aur_on)

(* ------------------------------------------------------------------ *)
(* refresh_installed_aur                                                *)
(* ------------------------------------------------------------------ *)

\* outcomes of `grimaur list`: exit 0, a non-zero exit, or an exception
\* (timeout, OSError)
ListOutcomes ==
    {"ok", "nonzero", "raise"}

\* lines 1432-1463: the new self.installed_aur; an exception leaves the
\* old set, a non-zero exit stores the empty set
RefreshInstalledAur(old, env_a, outcome) ==
    IF outcome = "raise" THEN old
    ELSE IF outcome = "nonzero" THEN {}
    ELSE env_a

(* ------------------------------------------------------------------ *)
(* update_package_status.update: the patched catalog                    *)
(* ------------------------------------------------------------------ *)

\* a pass that rebuilt every record as a 4-tuple
UpdatedPkgWithoutKey(pkg, inst_aur, installed_pacman, installed_flatpak) ==
    LET pkg_type == IF Len(pkg) > 3 THEN pkg[4] ELSE "pacman"
        is_installed ==
            IF pkg_type = "aur" THEN pkg[1] \in inst_aur
            ELSE IF pkg_type = "flatpak"
                 THEN (IF Len(pkg) > 4 THEN pkg[5] \in installed_flatpak ELSE FALSE)
                 ELSE pkg[1] \in installed_pacman
    IN  <<pkg[1], pkg[2], is_installed, pkg_type>>

\* lines 1322-1342, one record
UpdatedPkg(pkg, inst_aur, installed_pacman, installed_flatpak) ==
    LET pkg_type == IF Len(pkg) > 3 THEN pkg[4] ELSE "pacman"
        is_installed ==
            IF pkg_type = "aur" THEN pkg[1] \in inst_aur
            ELSE IF pkg_type = "flatpak"
                 THEN (IF Len(pkg) > 4 THEN pkg[5] \in installed_flatpak ELSE FALSE)
                 ELSE pkg[1] \in installed_pacman
    IN  IF Len(pkg) > 4 THEN <<pkg[1], pkg[2], is_installed, pkg_type, pkg[5]>>
        ELSE <<pkg[1], pkg[2], is_installed, pkg_type>>

\* lines 1321-1342, the loop over self.packages
UpdatedPackages(pkgs, inst_aur, installed_pacman, installed_flatpak) ==
    [i \in 1..Len(pkgs) |-> UpdatedPkg(pkgs[i], inst_aur, installed_pacman, installed_flatpak)]

(* ------------------------------------------------------------------ *)
(* search_aur_packages                                                  *)
(* ------------------------------------------------------------------ *)

\* outcomes of the external search command
SearchOutcomes ==
    {"ok", "nonzero", "raise"}

\* lines 1516-1525: a result line counts when its name has two or more
\* characters of the package-name alphabet
ValidSearchName(n) ==
    Len(n) >= 2

\* lines 1489-1532: the parsed hits, reversed
ParseSearch(term, inst_aur, outcome) ==
    LET hit(n) == <<n, "aur", n \in inst_aur, "aur">>
    IN  IF outcome = "ok"
        THEN LET names == SelectSeq(AurSearchOutput(term), ValidSearchName)
             IN  Reverse([i \in 1..Len(names) |-> hit(names[i])])
        ELSE <<>>

\* the memoized hits returned as they were stored
ReturnCached(cached, inst_aur) ==
    cached

\* lines 1475-1480: the memoized hits with installed recomputed
RecomputeCached(cached, inst_aur) ==
    [i \in 1..Len(cached) |->
        <<cached[i][1], cached[i][2], cached[i][1] \in inst_aur, cached[i][4]>>]

(* ------------------------------------------------------------------ *)
(* merge_aur_search_results                                             *)
(* ------------------------------------------------------------------ *)

\* line 1574: the records that stay
IsStaleAur(p) ==
    Len(p) > 3 /\ p[4] = "aur" /\ ~p[3]

\* a loop that appends every hit, without the test of line 1581
AppendAll(pkgs, existing_names, aur_results) ==
    pkgs \o aur_results

\* lines 1580-1582: the loop that appends
RECURSIVE AppendNew(_, _, _)
AppendNew(pkgs, existing_names, aur_results) ==
    IF aur_results = <<>> THEN pkgs
    ELSE AppendNew(IF aur_results[1][1] \notin existing_names
                   THEN Append(pkgs, aur_results[1]) ELSE pkgs,
                   existing_names, Tail(aur_results))

\* a merge that forgets to drop the uninstalled AUR records (line 1574)
MergeKeepingStale(pkgs, aur_results) ==
    AppendNew(pkgs, {pkgs[i][1] : i \in 1..Len(pkgs)}, aur_results)

\* lines 1574-1582: the new self.packages
MergeAurSearchResults(pkgs, aur_results) ==
    LET kept == SelectSeq(pkgs, LAMBDA p : ~IsStaleAur(p))
        existing_names == {kept[i][1] : i \in 1..Len(kept)}
    IN  AppendNew(kept, existing_names, aur_results)

(* ------------------------------------------------------------------ *)
(* fuzzy_match and refresh_list: filter, rank, paginate, render         *)
(* ------------------------------------------------------------------ *)

\* self.selected = None
None ==
    <<>>

\* the row add_empty_state_message appends (not selectable, no pkg_data)
EmptyStateRow ==
    <<"empty-state">>

\* a row made by add_package_row
IsPackageRow(r) ==
    Len(r) >= 4

\* lines 1636-1638: the result for a text that is no substring
ByRatio(similarity, threshold) ==
    <<AtLeastThreshold(similarity, threshold), similarity>>

\* a match that gives a substring no priority
FuzzyRatioOnly(text, package_name, threshold) ==
    IF text = <<>> THEN <<TRUE, <<1, 1>>>>
    ELSE ByRatio(Ratio(Lower(text), Lower(package_name)), threshold)

\* lines 1622-1638: <<matches, score>>
fuzzy_match(text, package_name, threshold) ==
    IF text = <<>> THEN <<TRUE, <<1, 1>>>>
    ELSE IF IsSubstring(Lower(text), Lower(package_name)) THEN <<TRUE, <<1, 1>>>>
    ELSE ByRatio(Ratio(Lower(text), Lower(package_name)), threshold)

\* an AUR tab that looks at installed records only
InTabInstalledAur(tab, p) ==
    IF tab = "installed" THEN p[3] /\ Len(p) > 3 /\ p[4] = "pacman"
    ELSE IF tab = "available" THEN ~p[3]
    ELSE IF tab = "flatpak" THEN p[3] /\ Len(p) > 3 /\ p[4] = "flatpak"
    ELSE IF tab = "aur" THEN p[3] /\ Len(p) > 3 /\ p[4] = "aur"
    ELSE TRUE

\* lines 1668-1701: the records a tab looks at
InTab(tab, p) ==
    IF tab = "installed" THEN p[3] /\ Len(p) > 3 /\ p[4] = "pacman"
    ELSE IF tab = "available" THEN ~p[3]
    ELSE IF tab = "flatpak" THEN p[3] /\ Len(p) > 3 /\ p[4] = "flatpak"
    ELSE IF tab = "aur" THEN Len(p) > 3 /\ p[4] = "aur"
    ELSE TRUE

\* the (p, score) pairs appended: `scored` holds <<p, fuzzy_match(...)>> for
\* every record of the catalog
Appended(scored, tab) ==
    LET cand == SelectSeq(scored, LAMBDA x : InTab(tab, x[1]) /\ x[2][1])
    IN  [i \in 1..Len(cand) |-> <<cand[i][1], cand[i][2][2]>>]

\* lines 1666-1701: matches_with_scores, in catalog order
MatchesWithScores(pkgs, tab, text, threshold) ==
    Appended([i \in 1..Len(pkgs) |-> <<pkgs[i], fuzzy_match(text, pkgs[i][1], threshold)>>],
             tab)

\* an insertion that puts an element before the elements of equal score
RECURSIVE InsertBeforeEqual(_, _)
InsertBeforeEqual(sorted, x) ==
    IF sorted = <<>> THEN <<x>>
    ELSE IF ScoreGeq(sorted[1][2], x[2]) /\ ~ScoreGeq(x[2], sorted[1][2])
         THEN <<sorted[1]>> \o InsertBeforeEqual(Tail(sorted), x)
    ELSE <<x>> \o sorted

\* list.sort(key=score, reverse=True) is stable: an element goes behind
\* every element whose score is at least its own
RECURSIVE InsertByScore(_, _)
InsertByScore(sorted, x) ==
    IF sorted = <<>> THEN <<x>>
    ELSE IF ScoreGeq(sorted[1][2], x[2]) THEN <<sorted[1]>> \o InsertByScore(Tail(sorted), x)
    ELSE <<x>> \o sorted

RECURSIVE SortByScore(_)
SortByScore(ms) ==
    IF ms = <<>> THEN <<>>
    ELSE InsertByScore(SortByScore(SubSeq(ms, 1, Len(ms) - 1)), ms[Len(ms)])

\* line 1705: [p for p, score in matches_with_scores]
Firsts(pairs) ==
    [i \in 1..Len(pairs) |-> pairs[i][1]]

\* lines 1703-1705: self.filtered_packages
Filtered(pkgs, tab, text, threshold) ==
    Firsts(SortByScore(MatchesWithScores(pkgs, tab, text, threshold)))

\* a slice that starts at the first record on every page
PackagesFromStart(filtered, page, psize) ==
    Slice(filtered, 0, Min((page + 1) * psize, Len(filtered)))

\* lines 1707-1711: packages_to_show
PackagesToShow(filtered, page, psize) ==
    LET total_filtered == Len(filtered)
        start_idx == page * psize
        end_idx == Min((page + 1) * psize, total_filtered)
    IN  IF page > 0 THEN Slice(filtered, start_idx, end_idx) ELSE Slice(filtered, 0, end_idx)

\* line 1722
HasMore(filtered, page, psize) ==
    Min((page + 1) * psize, Len(filtered)) < Len(filtered)

\* lines 1198-1227 as called from lines 1741-1761: get_aur_count starts the
\* count thread when no count is known and none is being fetched
CountAfterRefresh(cnt, tab, text, aur_on) ==
    IF text = <<>> /\ (tab = "aur" \/ (tab = "all" /\ aur_on)) /\ cnt = "none"
    THEN "loading" ELSE cnt

\* a list box that holds package rows has one of them selected (the first
\* row is selected when page 0 is rendered, lines 1771-1775, and the
\* selection mode is BROWSE)
ShowsPackages(rows) ==
    \E i \in 1..Len(rows) : IsPackageRow(rows[i])

\* a refresh that drops from the ranked list the records of earlier pages
RenderConsuming(filtered, tab, page, psize, text, rows, showing, sel, cnt, aur_on) ==
    [filtered |-> Slice(filtered, Min(page * psize, Len(filtered)), Len(filtered)),
     rows     |-> (IF page = 0 THEN <<>> ELSE rows)
                       \o PackagesToShow(filtered, page, psize)
                       \o (IF Len(filtered) = 0 THEN <<EmptyStateRow>> ELSE <<>>),
     has_more |-> HasMore(filtered, page, psize),
     selected |-> IF page = 0 /\ Len(filtered) > 0 THEN filtered[1] ELSE sel,
     count    |-> CountAfterRefresh(cnt, tab, text, aur_on)]

\* a refresh that never clears the list box
RenderAppending(filtered, tab, page, psize, text, rows, showing, sel, cnt, aur_on) ==
    [filtered |-> filtered,
     rows     |-> rows \o PackagesToShow(filtered, page, psize)
                       \o (IF Len(filtered) = 0 THEN <<EmptyStateRow>> ELSE <<>>),
     has_more |-> HasMore(filtered, page, psize),
     selected |-> IF page = 0 /\ Len(filtered) > 0 THEN filtered[1] ELSE sel,
     count    |-> CountAfterRefresh(cnt, tab, text, aur_on)]

(* refresh_list from line 1707 on, self.filtered_packages being           *)
(* `filtered`: the list box holds `rows`, `showing` says whether it holds  *)
(* package rows.  Removing the selected row of a Gtk.ListBox emits         *)
(* row-selected with no row, so clearing a list that shows packages runs   *)
(* on_select(None); select_row(first_row) then runs on_select(first_row).  *)
Render(filtered, tab, page, psize, text, rows, showing, sel, cnt, aur_on) ==
    LET kept == IF page = 0 THEN <<>> ELSE rows
        sel_cleared == IF page = 0 /\ showing THEN None ELSE sel
        shown == kept \o PackagesToShow(filtered, page, psize)
                      \o (IF Len(filtered) = 0 THEN <<EmptyStateRow>> ELSE <<>>)
    IN  [filtered |-> filtered,
         rows     |-> shown,
         has_more |-> HasMore(filtered, page, psize),
         selected |-> IF page = 0 /\ Len(filtered) > 0 THEN filtered[1] ELSE sel_cleared,
         count    |-> CountAfterRefresh(cnt, tab, text, aur_on)]

\* refresh_list, lines 1640-1775, on the list box of tab `tab`
refresh_list(pkgs, tab, page, psize, text, threshold, rows, showing, sel, cnt, aur_on) ==
    Render(Filtered(pkgs, tab, text, threshold), tab, page, psize, text, rows, showing,
           sel, cnt, aur_on)

(* ------------------------------------------------------------------ *)
(* /etc/pacman.conf and its IgnorePkg lines                             *)
(* ------------------------------------------------------------------ *)

kw_IgnorePkg ==
    <<"I", "g", "n", "o", "r", "e", "P", "k", "g">>

l_options ==
    <<"[", "o", "p", "t", "i", "o", "n", "s", "]">>

l_core ==
    <<"[", "c", "o", "r", "e", "]">>

l_Color ==
    <<"C", "o", "l", "o", "r">>

\* str.startswith
StartsWith(s, prefix) ==
    Len(s) >= Len(prefix) /\ SubSeq(s, 1, Len(prefix)) = prefix

\* str.rstrip()
RECURSIVE RStrip(_)
RStrip(s) ==
    IF s = <<>> THEN <<>>
    ELSE IF s[Len(s)] = " " THEN RStrip(SubSeq(s, 1, Len(s) - 1))
    ELSE s

\* s.split('=', 1)[1], for a string that holds '='
AfterEq(s) ==
    LET i == CHOOSE k \in 1..Len(s) : s[k] = "=" /\ \A j \in 1..(k - 1) : s[j] # "="
    IN  SubSeq(s, i + 1, Len(s))

\* the first word of a string that does not start with a blank
RECURSIVE FirstWord(_)
FirstWord(s) ==
    IF s = <<>> \/ s[1] = " " THEN <<>> ELSE <<s[1]>> \o FirstWord(Tail(s))

\* str.split(): the words between runs of blanks
RECURSIVE Split(_)
Split(s) ==
    IF s = <<>> THEN <<>>
    ELSE IF s[1] = " " THEN Split(Tail(s))
    ELSE LET w == FirstWord(s)
         IN  <<w>> \o Split(SubSeq(s, Len(w) + 1, Len(s)))

\* ' '.join(words)
RECURSIVE Join(_)
Join(words) ==
    IF words = <<>> THEN <<>>
    ELSE IF Len(words) = 1 THEN words[1]
    ELSE words[1] \o <<" ">> \o Join(Tail(words))

\* f"IgnorePkg = {' '.join(packages)}"
IgnoreLine(pkgs) ==
    kw_IgnorePkg \o <<" ", "=", " ">> \o Join(pkgs)

\* the test all three functions make on a line: not a comment, starts with
\* IgnorePkg and holds '=' (lines 49-54, 82, 138)
IsActiveIgnorePkg(line) ==
    LET stripped == Strip(line)
    IN  StartsWith(stripped, kw_IgnorePkg) /\ "=" \in Range(stripped)

\* lines 55-56 and 139-140: the words after the '=' sign
IgnoredBy(line) ==
    Split(Strip(AfterEq(Strip(line))))

\* is_in_ignorepkg, lines 43-63, on the lines of the file
is_in_ignorepkg(conf, package_name) ==
    \E i \in 1..Len(conf) :
        IsActiveIgnorePkg(conf[i]) /\ package_name \in Range(IgnoredBy(conf[i]))

\* lines 82-87: an active line gets the name appended unless the name
\* occurs in the text of the line
AppendToActive(line, package_name) ==
    IF IsActiveIgnorePkg(line) /\ ~IsSubstring(package_name, Strip(line))
    THEN RStrip(line) \o <<" ">> \o package_name
    ELSE line

\* lines 92-111: with no active line, a new line goes before the first
\* blank or comment line that follows the [options] header
RECURSIVE InsertInOptions(_, _, _, _)
InsertInOptions(lines, package_name, in_options, added) ==
    IF lines = <<>> THEN <<>>
    ELSE LET line == Head(lines)
             stripped == Strip(line)
         IN  IF stripped = l_options
             THEN <<line>> \o InsertInOptions(Tail(lines), package_name, TRUE, added)
             ELSE IF in_options /\ ~added
                     /\ (StartsWith(stripped, <<"[">>) \/ stripped = <<>>
                         \/ StartsWith(stripped, <<"#">>))
             THEN IF StartsWith(stripped, <<"[">>)
                  THEN <<line>> \o InsertInOptions(Tail(lines), package_name, FALSE, added)
                  ELSE <<IgnoreLine(<<package_name>>), line>>
                           \o InsertInOptions(Tail(lines), package_name, in_options, TRUE)
             ELSE <<line>> \o InsertInOptions(Tail(lines), package_name, in_options, added)

\* add_to_ignorepkg, lines 65-123: the lines written back
add_to_ignorepkg(conf, package_name) ==
    IF \E i \in 1..Len(conf) : IsActiveIgnorePkg(conf[i])
    THEN [i \in 1..Len(conf) |-> AppendToActive(conf[i], package_name)]
    ELSE InsertInOptions(conf, package_name, FALSE, FALSE)

\* a remove that keeps every word of the line
KeptWordsAll(line, package_name) ==
    IgnoredBy(line)

\* lines 139-143: the words an active line keeps
KeptWords(line, package_name) ==
    SelectSeq(IgnoredBy(line), LAMBDA w : w # package_name)

\* remove_from_ignorepkg, lines 125-163: the lines written back; an active
\* line is rewritten from its remaining words, or dropped when none remains
RECURSIVE remove_from_ignorepkg(_, _)
remove_from_ignorepkg(conf, package_name) ==
    IF conf = <<>> THEN <<>>
    ELSE LET line == Head(conf)
             rest == remove_from_ignorepkg(Tail(conf), package_name)
         IN  IF IsActiveIgnorePkg(line)
             THEN (IF KeptWords(line, package_name) # <<>>
                   THEN <<IgnoreLine(KeptWords(line, package_name))>> ELSE <<>>) \o rest
             ELSE <<line>> \o rest

\* a pacman.conf as shipped: no active IgnorePkg line, the commented one
\* inside [options]
DefaultConf ==
    <<l_options, l_Color, <<"#">> \o IgnoreLine(<<>>), <<>>, l_core>>

\* the contents /etc/pacman.conf can have when the program reads it
ConfFiles ==
    {DefaultConf,
     <<l_options, IgnoreLine(<<s_abc>>), <<>>, l_core>>,
     <<l_options, <<" ">> \o IgnoreLine(<<s_ab, s_bc>>) \o <<" ">>,
       kw_IgnorePkg \o <<"=">> \o s_bc, l_core>>,
     <<l_options, l_Color, l_core>>,
     <<l_options, l_Color>>,
     <<l_core>>}

\* the packages the freeze buttons are shown for
FreezeNames ==
    {s_ab, s_bc, s_abc}

(* ------------------------------------------------------------------ *)
(* State                                                                *)
(* ------------------------------------------------------------------ *)

VARIABLES
    env_pacman,        \* names `pacman -Q` prints
    env_flatpak,       \* application IDs `flatpak list --app` prints
    env_aur,           \* names `grimaur list` prints
    aur_enabled,       \* the aur_enabled config file (get_grimaur_enabled)
    grimaur_ok,        \* check_grimaur(): the helper is there and runs
    packages,          \* self.packages, the catalog
    filtered_packages, \* self.filtered_packages
    selected,          \* self.selected
    page_size,         \* self.page_size
    current_page,      \* self.current_page
    current_tab,       \* self.current_tab
    search_text,       \* the text of self.search
    fuzzy_threshold,   \* self.fuzzy_threshold, in hundredths
    installed_aur,     \* self.installed_aur
    aur_search_cache,  \* self.aur_search_cache, a function term -> hits
    aur_count,         \* "none", "loading" (aur_count_loading), "known" (aur_total_count)
    rows,              \* the rows of the list box of the current tab
    stale,             \* the rows the list boxes of the other tabs still hold
    has_more,          \* the Load-more button of the current tab is sensitive
    threads,           \* the load, update and search threads that are running
    idle,              \* callbacks queued with GLib.idle_add, oldest first
    children,          \* commands running in a run_cmd terminal
    timers,            \* pending GLib.timeout_add(500, update_package_status)
    last_op,           \* history: the handler or thread step taken last
    latest_id,         \* history: the load thread started last
    latest_pkgs,       \* history: the catalog that load thread built
    searched,          \* history: terms search_aur_packages has looked up
    n_commands,        \* history: commands run so far
    n_toggles,         \* history: flips of the AUR switch so far
    n_searches,        \* history: edits of the search entry so far
    last_hits,         \* history: the hits the last merge_aur_search_results was given
    pacman_conf        \* the lines of /etc/pacman.conf

vars ==
    <<env_pacman, env_flatpak, env_aur, aur_enabled, grimaur_ok, packages,
      filtered_packages, selected, page_size, current_page, current_tab,
      search_text, fuzzy_threshold, installed_aur, aur_search_cache, aur_count,
      rows, stale, has_more, threads, idle, children, timers, last_op, latest_id,
      latest_pkgs, searched, n_commands, n_toggles, n_searches, last_hits,
      pacman_conf>>

env_vars ==
    <<env_pacman, env_flatpak, env_aur>>

view_vars ==
    <<filtered_packages, selected, current_page, current_tab, search_text,
      fuzzy_threshold, aur_count, rows, stale, has_more>>

hist_vars ==
    <<latest_id, latest_pkgs, searched, n_commands, n_toggles, n_searches, last_hits>>

\* a thread started by threading.Thread(target=...).start()
Thread(kind, pc, term, id) ==
    [kind |-> kind, pc |-> pc, term |-> term, id |-> id, pkgs |-> <<>>,
     set_iaur |-> FALSE, iaur |-> {}, ip |-> {}, ifp |-> {}, efp |-> {},
     fault |-> "none"]

\* a callback queued by GLib.idle_add(fn, arg)
Msg(fn, arg, id) ==
    [fn |-> fn, arg |-> arg, id |-> id]

One(x) ==
    SetToBag({x})

\* threads that run or are about to: a pending timeout of
\* update_package_status will start one
NumThreads ==
    BagCardinality(threads) + timers

\* check_grimaur() and get_grimaur_enabled()
AurOn ==
    grimaur_ok /\ aur_enabled

\* ids of the loads whose result has not reached update_list yet
LoadIdsIn(thr, idl) ==
    {t.id : t \in {x \in BagToSet(thr) : x.kind = "load"}}
        \cup {idl[i].id : i \in {j \in 1..Len(idl) : idl[j].fn = "update_list"}}

FreshLoadId ==
    CHOOSE n \in 1..(MaxThreads + MaxIdle + 1) :
        /\ n \notin LoadIdsIn(threads, idle)
        /\ \A m \in 1..(n - 1) : m \in LoadIdsIn(threads, idle)

EmptyCache ==
    [t \in {} |-> <<>>]



(* __init__, lines 252-266: empty catalog, the installed tab, page 0, and   *)
(* load_packages() already called                                          *)
Init ==
    /\ env_pacman = {}
    /\ env_flatpak = {"org.bc"}
    /\ env_aur = {s_bc}
    /\ aur_enabled = TRUE
    /\ grimaur_ok \in BOOLEAN
    /\ packages = <<>>
    /\ filtered_packages = <<>>
    /\ selected = None
    /\ page_size \in 1..MaxPageSize
    /\ current_page = 0
    /\ current_tab = "installed"
    /\ search_text = <<>>
    /\ fuzzy_threshold = 40
    /\ installed_aur = {}
    /\ aur_search_cache = EmptyCache
    /\ aur_count = "none"
    /\ rows = <<>>
    /\ stale = [t \in Tabs |-> <<>>]
    /\ has_more = FALSE
    /\ threads = One(Thread("load", "fetch", <<>>, 1))
    /\ idle = <<>>
    /\ children = EmptyBag
    /\ timers = 0
    /\ last_op = "init"
    /\ pacman_conf = DefaultConf
    /\ latest_id = 1
    /\ latest_pkgs = None
    /\ searched = {}
    /\ n_commands = 0
    /\ n_toggles = 0
    /\ n_searches = 0
    /\ last_hits = <<>>

(* ------------------------------------------------------------------ *)
(* Handlers of the GTK main thread                                      *)
(* ------------------------------------------------------------------ *)

\* self.refresh_list() with the given values of the fields a handler has
\* just assigned
Refresh(pkgs, tab, page, text, threshold, sel, cnt) ==
    refresh_list(pkgs, tab, page, page_size, text, threshold,
                 IF tab = current_tab THEN rows ELSE stale[tab],
                 ShowsPackages(IF tab = current_tab THEN rows ELSE stale[tab]),
                 sel, cnt, AurOn)

\* the assignments refresh_list makes, on the list box of tab `tab`; the
\* list box of the tab that is left keeps its rows
Rendered(r, tab) ==
    /\ filtered_packages' = r.filtered
    /\ rows' = r.rows
    /\ stale' = IF tab = current_tab THEN stale
                ELSE [stale EXCEPT ![current_tab] = rows, ![tab] = <<>>]
    /\ has_more' = r.has_more
    /\ selected' = r.selected
    /\ aur_count' = r.count
    /\ Len(r.rows) <= MaxRows

\* lines 1547-1569
on_search_changed(text) ==
    LET stripped == Strip(text)
        tab == IF stripped # <<>> THEN "all" ELSE current_tab
        \* set_visible_child_name("all") runs on_stack_changed when the tab changes
        r1 == IF tab # current_tab
              THEN Refresh(packages, tab, 0, text, fuzzy_threshold, selected, aur_count)
              ELSE [filtered |-> filtered_packages, rows |-> rows,
                    has_more |-> has_more, selected |-> selected, count |-> aur_count]
        r2 == refresh_list(packages, tab, 0, page_size, text, fuzzy_threshold, r1.rows,
                           ShowsPackages(r1.rows), r1.selected, r1.count, AurOn)
        spawn == stripped # <<>> /\ AurOn
    IN  /\ text # search_text
        /\ n_searches < MaxSearches
        /\ n_searches' = n_searches + 1
        /\ search_text' = text
        /\ current_page' = 0
        /\ current_tab' = tab
        /\ IF spawn
           THEN /\ NumThreads < MaxThreads
                /\ threads' = threads (+) One(Thread("search", "refresh", stripped, 0))
           ELSE UNCHANGED threads
        /\ aur_search_cache' = IF stripped = <<>> THEN EmptyCache ELSE aur_search_cache
        /\ Rendered(r2, tab)
        /\ last_op' = "on_search_changed"
        /\ UNCHANGED <<env_vars, aur_enabled, grimaur_ok, packages, page_size,
                       fuzzy_threshold, installed_aur, idle, children, timers,
                       latest_id, latest_pkgs, searched, n_commands, n_toggles, last_hits>>
        /\ UNCHANGED pacman_conf

\* change_filter and on_stack_changed, lines 600-611
on_stack_changed(tab) ==
    /\ tab # current_tab
    /\ current_tab' = tab
    /\ current_page' = 0
    /\ Rendered(Refresh(packages, tab, 0, search_text, fuzzy_threshold,
                        selected, aur_count), tab)
    /\ last_op' = "on_stack_changed"
    /\ UNCHANGED <<env_vars, aur_enabled, grimaur_ok, packages, page_size, search_text,
                   fuzzy_threshold, installed_aur, aur_search_cache, threads, idle,
                   children, timers, hist_vars>>
    /\ UNCHANGED pacman_conf

\* lines 1875-1877; the button is sensitive only while has_more
load_more_packages ==
    /\ has_more
    /\ current_page' = current_page + 1
    /\ Rendered(Refresh(packages, current_tab, current_page + 1, search_text,
                        fuzzy_threshold, selected, aur_count),
                current_tab)
    /\ last_op' = "load_more_packages"
    /\ UNCHANGED <<env_vars, aur_enabled, grimaur_ok, packages, page_size, current_tab,
                   search_text, fuzzy_threshold, installed_aur, aur_search_cache,
                   threads, idle, children, timers, hist_vars>>
    /\ UNCHANGED pacman_conf

\* lines 1879-1898: the user picks a row of the current list
on_select(i) ==
    /\ i \in 1..Len(rows)
    /\ IsPackageRow(rows[i])
    /\ selected # rows[i]
    /\ selected' = rows[i]
    /\ last_op' = "on_select"
    /\ UNCHANGED <<env_vars, aur_enabled, grimaur_ok, packages, filtered_packages,
                   page_size, current_page, current_tab, search_text, fuzzy_threshold,
                   installed_aur, aur_search_cache, aur_count, rows, stale, has_more,
                   threads, idle, children, timers, hist_vars>>
    /\ UNCHANGED pacman_conf

\* lines 1249-1255
on_fuzzy_threshold_changed(threshold) ==
    /\ threshold # fuzzy_threshold
    /\ fuzzy_threshold' = threshold
    /\ Rendered(Refresh(packages, current_tab, current_page, search_text, threshold,
                        selected, aur_count), current_tab)
    /\ last_op' = "on_fuzzy_threshold_changed"
    /\ UNCHANGED <<env_vars, aur_enabled, grimaur_ok, packages, page_size, current_page,
                   current_tab, search_text, installed_aur, aur_search_cache, threads,
                   idle, children, timers, hist_vars>>
    /\ UNCHANGED pacman_conf

\* lines 1176-1181
on_aur_toggle ==
    /\ Len(idle) < MaxIdle
    /\ n_toggles < MaxToggles
    /\ n_toggles' = n_toggles + 1
    /\ aur_enabled' = ~aur_enabled
    /\ idle' = Append(idle, Msg("load_packages", <<>>, 0))
    /\ last_op' = "on_aur_toggle"
    /\ UNCHANGED <<env_vars, grimaur_ok, packages, page_size, installed_aur,
                   aur_search_cache, threads, children, timers, view_vars,
                   latest_id, latest_pkgs, searched, n_commands, n_searches, last_hits>>
    /\ UNCHANGED pacman_conf

\* lines 2049-2113 and run_cmd: the command is built from self.selected
\* (install when its installed flag is false, remove when true) and spawned
handle_package_action ==
    /\ selected # None
    /\ Len(selected) >= 4
    /\ selected[4] = "flatpak" => Len(selected) >= 5
    /\ selected[4] = "aur" => grimaur_ok
    /\ BagCardinality(children) < MaxChildren
    /\ n_commands < MaxCommands
    /\ n_commands' = n_commands + 1
    /\ children' = children (+) One(selected)
    /\ last_op' = "handle_package_action"
    /\ UNCHANGED <<env_vars, aur_enabled, grimaur_ok, packages, page_size, installed_aur,
                   aur_search_cache, threads, idle, timers, view_vars,
                   latest_id, latest_pkgs, searched, n_searches, n_toggles, last_hits>>
    /\ UNCHANGED pacman_conf

(* ------------------------------------------------------------------ *)
(* run_cmd: the child process and its exit                              *)
(* ------------------------------------------------------------------ *)

\* what the command built from the selected record `c` does to an
\* installed set when it takes effect
Toggled(set, key, was_installed) ==
    IF was_installed THEN set \ {key} ELSE set \cup {key}

\* run_cmd.on_child_exited, lines 2477-2494.  Whether the command changed
\* the installed sets is the package manager's business: the user may
\* decline its prompt, and a failing transaction may have been partly done.
on_child_exited(c, status, applied) ==
    /\ c \in BagToSet(children)
    /\ children' = children (-) One(c)
    /\ env_pacman' = IF applied /\ c[4] = "pacman"
                     THEN Toggled(env_pacman, c[1], c[3]) ELSE env_pacman
    /\ env_flatpak' = IF applied /\ c[4] = "flatpak"
                      THEN Toggled(env_flatpak, c[5], c[3]) ELSE env_flatpak
    /\ env_aur' = IF applied /\ c[4] = "aur"
                  THEN Toggled(env_aur, c[1], c[3]) ELSE env_aur
    /\ IF status = 0
       THEN /\ timers < MaxTimers
            /\ NumThreads < MaxThreads
            /\ timers' = timers + 1
       ELSE UNCHANGED timers
    /\ last_op' = "on_child_exited"
    /\ UNCHANGED <<aur_enabled, grimaur_ok, packages, page_size, installed_aur,
                   aur_search_cache, threads, idle, view_vars, hist_vars>>
    /\ UNCHANGED pacman_conf

\* update_package_status, lines 1298-1354, called by the 500 ms timeout:
\* starts the update thread
update_package_status ==
    /\ timers > 0
    /\ timers' = timers - 1
    /\ threads' = threads (+) One(Thread("update", "query", <<>>, 0))
    /\ last_op' = "update_package_status"
    /\ UNCHANGED <<env_vars, aur_enabled, grimaur_ok, packages, page_size, installed_aur,
                   aur_search_cache, idle, children, view_vars, hist_vars>>
    /\ UNCHANGED pacman_conf

(* ------------------------------------------------------------------ *)
(* update_package_status.update, the reconciliation thread              *)
(* ------------------------------------------------------------------ *)

\* what can go wrong in one pass (one fault at a time)
UpdateFaults ==
    {"none", "pacman", "flatpak", "aur-nonzero", "aur-raise"}

ListOutcomeOf(fault) ==
    IF fault = "aur-nonzero" THEN "nonzero" ELSE IF fault = "aur-raise" THEN "raise" ELSE "ok"

\* lines 1303-1318: the three queries.  `pacman -Q` runs with check=True,
\* so its failure raises into the handler of line 1348, which queues
\* load_packages; a flatpak failure is swallowed (line 1314) and leaves the
\* empty set; refresh_installed_aur stores its result in self.installed_aur.
update_query(t, fault) ==
    /\ t \in BagToSet(threads)
    /\ t.kind = "update" /\ t.pc = "query"
    /\ IF fault = "pacman"
       THEN /\ Len(idle) < MaxIdle
            /\ idle' = Append(idle, Msg("load_packages", <<>>, 0))
            /\ threads' = threads (-) One(t)
            /\ UNCHANGED installed_aur
       ELSE /\ threads' = (threads (-) One(t)) (+)
                  One([t EXCEPT !.pc = "compute", !.fault = fault,
                                !.ip = env_pacman,
                                !.ifp = IF fault = "flatpak" THEN {} ELSE env_flatpak,
                                !.efp = env_flatpak,
                                !.iaur = env_aur])
            /\ installed_aur' = RefreshInstalledAur(installed_aur, env_aur, ListOutcomeOf(fault))
            /\ UNCHANGED idle
    /\ last_op' = "update_query"
    /\ UNCHANGED <<env_vars, aur_enabled, grimaur_ok, packages, page_size,
                   aur_search_cache, children, timers, view_vars, hist_vars>>
    /\ UNCHANGED pacman_conf

\* lines 1321-1342: the loop reads self.packages and self.installed_aur
update_compute(t) ==
    /\ t \in BagToSet(threads)
    /\ t.kind = "update" /\ t.pc = "compute"
    /\ threads' = (threads (-) One(t)) (+)
          One([t EXCEPT !.pc = "write",
                        !.pkgs = UpdatedPackages(packages, installed_aur, t.ip, t.ifp)])
    /\ last_op' = "update_compute"
    /\ UNCHANGED <<env_vars, aur_enabled, grimaur_ok, packages, page_size, installed_aur,
                   aur_search_cache, idle, children, timers, view_vars, hist_vars>>
    /\ UNCHANGED pacman_conf

\* lines 1345-1346: the thread itself assigns self.packages, then queues
\* refresh_list
update_write(t) ==
    /\ t \in BagToSet(threads)
    /\ t.kind = "update" /\ t.pc = "write"
    /\ Len(idle) < MaxIdle
    /\ packages' = t.pkgs
    /\ idle' = Append(idle, Msg("refresh_list", <<>>, 0))
    /\ threads' = threads (-) One(t)
    /\ last_op' = "update_write"
    /\ UNCHANGED <<env_vars, aur_enabled, grimaur_ok, page_size, installed_aur,
                   aur_search_cache, children, timers, view_vars, hist_vars>>
    /\ UNCHANGED pacman_conf

(* ------------------------------------------------------------------ *)
(* load_packages and its thread                                         *)
(* ------------------------------------------------------------------ *)

\* lines 1357-1424: the queries of one full load.  A failing `pacman -Sl`
\* raises into the handler of line 1427 and nothing reaches update_list.
load_fetch(t, fault) ==
    /\ t \in BagToSet(threads)
    /\ t.kind = "load" /\ t.pc = "fetch"
    /\ IF fault = "pacman-Sl"
       THEN /\ threads' = threads (-) One(t)
            /\ UNCHANGED latest_pkgs
       ELSE LET pkgs == LoadResult(env_pacman, env_flatpak, env_aur, fault, AurOn)
            IN  /\ threads' = (threads (-) One(t)) (+)
                      One([t EXCEPT !.pc = "publish", !.fault = fault, !.pkgs = pkgs,
                                    !.set_iaur = AurOn,
                                    !.iaur = IF fault = "aur" THEN {} ELSE env_aur])
                /\ latest_pkgs' = IF t.id = latest_id THEN <<pkgs>> ELSE latest_pkgs
    /\ last_op' = "load_fetch"
    /\ UNCHANGED <<env_vars, aur_enabled, grimaur_ok, packages, page_size, installed_aur,
                   aur_search_cache, idle, children, timers, view_vars, latest_id, searched,
                   n_commands, n_toggles, n_searches, last_hits>>
    /\ UNCHANGED pacman_conf

\* lines 1421-1426: self.installed_aur is assigned by the thread, the
\* catalog is handed to update_list
load_publish(t) ==
    /\ t \in BagToSet(threads)
    /\ t.kind = "load" /\ t.pc = "publish"
    /\ Len(idle) < MaxIdle
    /\ installed_aur' = IF t.set_iaur THEN t.iaur ELSE installed_aur
    /\ idle' = Append(idle, Msg("update_list", t.pkgs, t.id))
    /\ threads' = threads (-) One(t)
    /\ last_op' = "load_publish"
    /\ UNCHANGED <<env_vars, aur_enabled, grimaur_ok, packages, page_size,
                   aur_search_cache, children, timers, view_vars, hist_vars>>
    /\ UNCHANGED pacman_conf

(* ------------------------------------------------------------------ *)
(* on_search_changed.search_and_update, the search thread               *)
(* ------------------------------------------------------------------ *)

\* lines 1467-1471: the availability check and refresh_installed_aur
search_refresh(t, outcome) ==
    /\ t \in BagToSet(threads)
    /\ t.kind = "search" /\ t.pc = "refresh"
    /\ IF ~AurOn
       THEN /\ Len(idle) < MaxIdle
            /\ outcome = "ok"
            /\ idle' = Append(idle, Msg("merge_aur_search_results", <<>>, 0))
            /\ threads' = threads (-) One(t)
            /\ UNCHANGED installed_aur
       ELSE /\ installed_aur' = RefreshInstalledAur(installed_aur, env_aur, outcome)
            /\ threads' = (threads (-) One(t)) (+) One([t EXCEPT !.pc = "lookup"])
            /\ UNCHANGED idle
    /\ last_op' = "search_refresh"
    /\ UNCHANGED <<env_vars, aur_enabled, grimaur_ok, packages, page_size,
                   aur_search_cache, children, timers, view_vars, hist_vars>>
    /\ UNCHANGED pacman_conf

\* line 1474: the membership test finds the term in the cache
search_hit(t) ==
    /\ t \in BagToSet(threads)
    /\ t.kind = "search" /\ t.pc = "lookup"
    /\ t.term \in DOMAIN aur_search_cache
    /\ threads' = (threads (-) One(t)) (+) One([t EXCEPT !.pc = "cached"])
    /\ last_op' = "search_hit"
    /\ UNCHANGED <<env_vars, aur_enabled, grimaur_ok, packages, page_size,
                   installed_aur, aur_search_cache, idle, children, timers,
                   view_vars, hist_vars>>
    /\ UNCHANGED pacman_conf

\* lines 1475-1482: the entry is read, its flags recomputed, stored and
\* returned; if on_search_changed has emptied the cache since the test of
\* line 1474 the subscript raises KeyError outside any try and the thread
\* ends without queueing a merge
search_cached(t) ==
    LET updated_results == RecomputeCached(aur_search_cache[t.term], installed_aur)
    IN  /\ t \in BagToSet(threads)
        /\ t.kind = "search" /\ t.pc = "cached"
        /\ IF t.term \in DOMAIN aur_search_cache
           THEN /\ Len(idle) < MaxIdle
                /\ aur_search_cache' = [aur_search_cache EXCEPT ![t.term] = updated_results]
                /\ idle' = Append(idle, Msg("merge_aur_search_results", updated_results, 0))
                /\ last_op' = "search_cached"
           ELSE /\ UNCHANGED <<aur_search_cache, idle>>
                /\ last_op' = "search_keyerror"
        /\ threads' = threads (-) One(t)
        /\ searched' = searched \cup {t.term}
        /\ UNCHANGED <<env_vars, aur_enabled, grimaur_ok, packages, page_size,
                       installed_aur, children, timers, view_vars, latest_id, latest_pkgs,
                       n_commands, n_toggles, n_searches, last_hits>>
        /\ UNCHANGED pacman_conf

\* lines 1484-1539: the external search; an exception returns [] and
\* stores nothing, any other outcome stores what was parsed
search_external(t, outcome) ==
    LET aur_packages == ParseSearch(t.term, installed_aur, outcome)
    IN  /\ t \in BagToSet(threads)
        /\ t.kind = "search" /\ t.pc = "lookup"
        /\ t.term \notin DOMAIN aur_search_cache
        /\ Len(idle) < MaxIdle
        /\ aur_search_cache' =
              IF outcome = "raise" THEN aur_search_cache
              ELSE [x \in DOMAIN aur_search_cache \cup {t.term} |->
                       IF x = t.term THEN aur_packages ELSE aur_search_cache[x]]
        /\ idle' = Append(idle, Msg("merge_aur_search_results", aur_packages, 0))
        /\ threads' = threads (-) One(t)
        /\ searched' = searched \cup {t.term}
        /\ last_op' = "search_external"
        /\ UNCHANGED <<env_vars, aur_enabled, grimaur_ok, packages, page_size,
                       installed_aur, children, timers, view_vars, latest_id, latest_pkgs,
                       n_commands, n_toggles, n_searches, last_hits>>
        /\ UNCHANGED pacman_conf

\* get_aur_count.fetch_count, lines 1208-1224
fetch_count(ok) ==
    /\ aur_count = "loading"
    /\ IF ok
       THEN /\ Len(idle) < MaxIdle
            /\ aur_count' = "known"
            /\ idle' = Append(idle, Msg("refresh_list", <<>>, 0))
       ELSE /\ aur_count' = "none"
            /\ UNCHANGED idle
    /\ last_op' = "fetch_count"
    /\ UNCHANGED <<env_vars, aur_enabled, grimaur_ok, packages, filtered_packages,
                   selected, page_size, current_page, current_tab, search_text,
                   fuzzy_threshold, installed_aur, aur_search_cache, rows, stale, has_more,
                   threads, children, timers, hist_vars>>
    /\ UNCHANGED pacman_conf

(* ------------------------------------------------------------------ *)
(* Callbacks the main loop runs from the idle queue, oldest first       *)
(* ------------------------------------------------------------------ *)

\* update_list, lines 1541-1545
update_list ==
    /\ idle # <<>>
    /\ Head(idle).fn = "update_list"
    /\ idle' = Tail(idle)
    /\ packages' = Head(idle).arg
    /\ current_page' = 0
    /\ Rendered(Refresh(Head(idle).arg, current_tab, 0, search_text, fuzzy_threshold,
                        selected, aur_count), current_tab)
    /\ IF LoadIdsIn(threads, Tail(idle)) = {}
       THEN latest_id' = 0 /\ latest_pkgs' = None
       ELSE UNCHANGED <<latest_id, latest_pkgs>>
    /\ last_op' = "update_list"
    /\ UNCHANGED <<env_vars, aur_enabled, grimaur_ok, page_size, current_tab, search_text,
                   fuzzy_threshold, installed_aur, aur_search_cache, threads, children,
                   timers, searched, n_commands, n_toggles, n_searches, last_hits>>
    /\ UNCHANGED pacman_conf

\* merge_aur_search_results, lines 1571-1586
merge_aur_search_results ==
    /\ idle # <<>>
    /\ Head(idle).fn = "merge_aur_search_results"
    /\ idle' = Tail(idle)
    /\ packages' = MergeAurSearchResults(packages, Head(idle).arg)
    /\ Rendered(Refresh(MergeAurSearchResults(packages, Head(idle).arg), current_tab,
                        current_page, search_text, fuzzy_threshold,
                        selected, aur_count), current_tab)
    /\ last_op' = "merge_aur_search_results"
    /\ last_hits' = Head(idle).arg
    /\ UNCHANGED <<env_vars, aur_enabled, grimaur_ok, page_size, current_page, current_tab,
                   search_text, fuzzy_threshold, installed_aur, aur_search_cache, threads,
                   children, timers, latest_id, latest_pkgs, searched, n_commands,
                   n_toggles, n_searches>>
    /\ UNCHANGED pacman_conf

\* GLib.idle_add(self.refresh_list), lines 1220 and 1346
idle_refresh_list ==
    /\ idle # <<>>
    /\ Head(idle).fn = "refresh_list"
    /\ idle' = Tail(idle)
    /\ Rendered(Refresh(packages, current_tab, current_page, search_text, fuzzy_threshold,
                        selected, aur_count), current_tab)
    /\ last_op' = "refresh_list"
    /\ UNCHANGED <<env_vars, aur_enabled, grimaur_ok, packages, page_size, current_page,
                   current_tab, search_text, fuzzy_threshold, installed_aur,
                   aur_search_cache, threads, children, timers, hist_vars>>
    /\ UNCHANGED pacman_conf

\* GLib.idle_add(self.load_packages), lines 1181 and 1351: load_packages
\* (lines 1356-1430) starts a load thread
load_packages ==
    /\ idle # <<>>
    /\ Head(idle).fn = "load_packages"
    /\ NumThreads < MaxThreads
    /\ idle' = Tail(idle)
    /\ threads' = threads (+) One(Thread("load", "fetch", <<>>, FreshLoadId))
    /\ latest_id' = FreshLoadId
    /\ latest_pkgs' = None
    /\ last_op' = "load_packages"
    /\ UNCHANGED <<env_vars, aur_enabled, grimaur_ok, packages, page_size, installed_aur,
                   aur_search_cache, children, timers, view_vars, searched,
                   n_commands, n_toggles, n_searches, last_hits>>
    /\ UNCHANGED pacman_conf

(* ------------------------------------------------------------------ *)
(* The program                                                          *)
(* ------------------------------------------------------------------ *)

\* what the user does in the window
UserSearches ==
    \E text \in SearchTexts : on_search_changed(text)

UserChangesTab ==
    \E tab \in Tabs : on_stack_changed(tab)

UserOpensAll ==
    on_stack_changed("all")

UserSelects ==
    \E i \in 1..MaxRows : on_select(i)

UserSetsThreshold ==
    \E th \in Thresholds : on_fuzzy_threshold_changed(th)

\* the threads
LoadThread ==
    \/ \E t \in BagToSet(threads), f \in LoadFaults : load_fetch(t, f)
    \/ \E t \in BagToSet(threads) : load_publish(t)

\* a full load none of whose commands fails
LoadThreadOk ==
    \/ \E t \in BagToSet(threads) : load_fetch(t, "none")
    \/ \E t \in BagToSet(threads) : load_publish(t)

UpdateThread ==
    \/ \E t \in BagToSet(threads), f \in UpdateFaults : update_query(t, f)
    \/ \E t \in BagToSet(threads) : update_compute(t)
    \/ \E t \in BagToSet(threads) : update_write(t)

SearchThread ==
    \/ \E t \in BagToSet(threads), o \in ListOutcomes : search_refresh(t, o)
    \/ \E t \in BagToSet(threads) : search_hit(t)
    \/ \E t \in BagToSet(threads) : search_cached(t)
    \/ \E t \in BagToSet(threads), o \in SearchOutcomes : search_external(t, o)

CountThread ==
    \E ok \in BOOLEAN : fetch_count(ok)

\* the command in the terminal exits
ChildExits ==
    \E c \in BagToSet(children), status \in {0, 1}, applied \in BOOLEAN :
        on_child_exited(c, status, applied)

Next ==
    \/ UserSearches
    \/ UserChangesTab
    \/ load_more_packages
    \/ UserSelects
    \/ UserSetsThreshold
    \/ on_aur_toggle
    \/ handle_package_action
    \/ update_package_status
    \/ update_list
    \/ merge_aur_search_results
    \/ idle_refresh_list
    \/ load_packages
    \/ LoadThread
    \/ UpdateThread
    \/ SearchThread
    \/ CountThread
    \/ ChildExits

\* the whole program
Spec ==
    Init /\ [][Next]_vars

(* Full loads: the AUR switch is flipped while loads are running.  The      *)
(* window stays on the installed tab with an empty search entry.           *)
LoadNext ==
    \/ on_aur_toggle
    \/ load_packages
    \/ LoadThreadOk
    \/ update_list

LoadSpec ==
    Init /\ [][LoadNext]_vars

(* Full loads any one of whose commands may fail.                          *)
LoadFaultNext ==
    \/ on_aur_toggle
    \/ load_packages
    \/ LoadThread
    \/ update_list

LoadFaultSpec ==
    Init /\ [][LoadFaultNext]_vars

(* Installing and removing: the user opens the tab of all packages, picks *)
(* a row and runs the command; reconciliation and, when it falls back, a   *)
(* full load follow.                                                       *)
ReconcileNext ==
    \/ UserOpensAll
    \/ load_more_packages
    \/ UserSelects
    \/ handle_package_action
    \/ ChildExits
    \/ update_package_status
    \/ UpdateThread
    \/ idle_refresh_list
    \/ load_packages
    \/ LoadThreadOk
    \/ update_list

ReconcileSpec ==
    Init /\ [][ReconcileNext]_vars

(* Searching: the user types, the search threads run and their hits are    *)
(* merged while the first load comes in.                                   *)
SearchNext ==
    \/ UserSearches
    \/ SearchThread
    \/ CountThread
    \/ merge_aur_search_results
    \/ idle_refresh_list
    \/ LoadThreadOk
    \/ update_list

SearchSpec ==
    Init /\ [][SearchNext]_vars

(* Installing and removing with the scheduling the program relies on for *)
(* reconciliation: a pending GLib timeout fires.                           *)
ReconcileFairSpec ==
    ReconcileSpec /\ WF_vars(update_package_status)

(* Paging: the window shows page 0 of some tab, for some search text, of a *)
(* catalog that a full load built and one AUR search extended; the user    *)
(* presses Load more.                                                      *)
StartWith(loaded, ep, ef, ea, tab, text, th, ps) ==
    LET term == Strip(text)
        hits == IF term = <<>> THEN <<>> ELSE ParseSearch(term, ea, "ok")
        pkgs == MergeAurSearchResults(loaded, hits)
        r == refresh_list(pkgs, tab, 0, ps, text, th, <<>>, FALSE, None, "none", TRUE)
    IN  /\ env_pacman = ep
        /\ env_flatpak = ef
        /\ env_aur = ea
        /\ aur_enabled = TRUE
        /\ grimaur_ok = TRUE
        /\ packages = pkgs
        /\ filtered_packages = r.filtered
        /\ selected = r.selected
        /\ page_size = ps
        /\ current_page = 0
        /\ current_tab = tab
        /\ search_text = text
        /\ fuzzy_threshold = th
        /\ installed_aur = ea
        /\ aur_search_cache = IF term = <<>> THEN EmptyCache ELSE [x \in {term} |-> hits]
        /\ aur_count = r.count
        /\ rows = r.rows
        /\ stale = [t \in Tabs |-> <<>>]
        /\ has_more = r.has_more
        /\ threads = EmptyBag
        /\ idle = <<>>
        /\ children = EmptyBag
        /\ timers = 0
        /\ last_op = "refresh_list"
        /\ latest_id = 0
        /\ latest_pkgs = None
        /\ searched = IF term = <<>> THEN {} ELSE {term}
        /\ n_commands = 0
        /\ n_toggles = 0
        /\ n_searches = IF text = <<>> THEN 0 ELSE 1
        /\ last_hits = hits

PageStart(ep, ef, ea, tab, text, th, ps) ==
    /\ StartWith(LoadResult(ep, ef, ea, "none", TRUE), ep, ef, ea, tab, text, th, ps)
    /\ pacman_conf = DefaultConf

PageInit ==
    \E ep \in SUBSET RepoNames, ef \in SUBSET FlatpakIds, ea \in SUBSET AurNames,
       tab \in Tabs, text \in SearchTexts, th \in Thresholds, ps \in 1..MaxPageSize :
        PageStart(ep, ef, ea, tab, text, th, ps)

PageNext ==
    load_more_packages

PageSpec ==
    PageInit /\ [][PageNext]_vars

(* Browsing: the first load has been delivered; the user types, changes    *)
(* tabs and presses Load more.                                             *)
ViewInit ==
    \E ea \in SUBSET AurNames, ps \in 1..MaxPageSize :
        PageStart(RepoNames, FlatpakIds, ea, "installed", <<>>, 40, ps)

ViewNext ==
    \/ UserSearches
    \/ UserChangesTab
    \/ load_more_packages

ViewSpec ==
    ViewInit /\ [][ViewNext]_vars

(* Filtering and ranking: the window shows page 0 of some tab of a catalog *)
(* that a full load built and the search for `prev` extended.  With a      *)
(* search text in the entry `prev` is its term; with an empty entry the    *)
(* hits of the last term searched are still in the catalog.  The user      *)
(* moves the threshold and presses Load more.                              *)
FilterStart(ep, ef, ea, prev, tab, text, th, ps) ==
    LET hits == IF prev = <<>> THEN <<>> ELSE ParseSearch(prev, ea, "ok")
        pkgs == MergeAurSearchResults(LoadResult(ep, ef, ea, "none", TRUE), hits)
        r == refresh_list(pkgs, tab, 0, ps, text, th, <<>>, FALSE, None, "none", TRUE)
    IN  /\ env_pacman = ep
        /\ env_flatpak = ef
        /\ env_aur = ea
        /\ aur_enabled = TRUE
        /\ grimaur_ok = TRUE
        /\ packages = pkgs
        /\ filtered_packages = r.filtered
        /\ selected = r.selected
        /\ page_size = ps
        /\ current_page = 0
        /\ current_tab = tab
        /\ search_text = text
        /\ fuzzy_threshold = th
        /\ installed_aur = ea
        /\ aur_search_cache = IF Strip(text) = <<>> THEN EmptyCache
                              ELSE [x \in {prev} |-> hits]
        /\ aur_count = r.count
        /\ rows = r.rows
        /\ stale = [t \in Tabs |-> <<>>]
        /\ has_more = r.has_more
        /\ threads = EmptyBag
        /\ idle = <<>>
        /\ children = EmptyBag
        /\ timers = 0
        /\ last_op = "refresh_list"
        /\ pacman_conf = DefaultConf
        /\ latest_id = 0
        /\ latest_pkgs = None
        /\ searched = IF prev = <<>> THEN {} ELSE {prev}
        /\ n_commands = 0
        /\ n_toggles = 0
        /\ n_searches = 0
        /\ last_hits = hits

FilterInit ==
    \E ep \in SUBSET RepoNames, ef \in SUBSET FlatpakIds, ea \in SUBSET AurNames,
       tab \in Tabs, text \in SearchTexts, th \in Thresholds, ps \in 1..MaxPageSize :
       \E prev \in IF Strip(text) = <<>> THEN {Strip(x) : x \in SearchTexts}
                    ELSE {Strip(text)} :
          FilterStart(ep, ef, ea, prev, tab, text, th, ps)

FilterNext ==
    \/ UserSetsThreshold
    \/ load_more_packages

FilterSpec ==
    FilterInit /\ [][FilterNext]_vars

(* ------------------------------------------------------------------ *)
(* Properties                                                           *)
(* ------------------------------------------------------------------ *)

\* the steps that run on the GTK main thread: signal handlers, the timeout
\* callback and the callbacks queued with GLib.idle_add
ControlThreadOps ==
    {"on_search_changed", "on_stack_changed", "load_more_packages", "on_select",
     "on_fuzzy_threshold_changed", "on_aur_toggle", "handle_package_action",
     "on_child_exited", "update_package_status", "update_list",
     "merge_aur_search_results", "refresh_list", "load_packages"}

\* the external commands one call of refresh_list runs with subprocess.run,
\* waiting for each to end: get_total_package_sizes (lines 1737, 2134) for
\* the status text of the installed tab, check_grimaur (lines 1760, 949) for
\* that of the tab of all packages, and check_fp or check_grimaur in
\* add_empty_state_message (lines 1827, 1840) when nothing is listed
RefreshWaitsFor(tab, text, filtered) ==
    (IF text = <<>> /\ tab = "installed" THEN {"pacman -Qi"} ELSE {})
    \cup (IF text = <<>> /\ tab = "all" THEN {"grimaur --help"} ELSE {})
    \cup (IF filtered = <<>> /\ tab = "flatpak" THEN {"flatpak --version"} ELSE {})
    \cup (IF filtered = <<>> /\ tab = "aur" THEN {"grimaur --help"} ELSE {})

\* the external commands the step that led to this state waited for on the
\* main thread: those of its refresh_list and, in on_search_changed with a
\* term, check_grimaur (line 1557)
ControlWaitsFor ==
    IF last_op \in {"on_search_changed", "on_stack_changed", "load_more_packages",
                    "on_fuzzy_threshold_changed", "update_list",
                    "merge_aur_search_results", "refresh_list"}
    THEN RefreshWaitsFor(current_tab, search_text, filtered_packages)
            \cup (IF last_op = "on_search_changed" /\ Strip(search_text) # <<>>
                  THEN {"grimaur --help"} ELSE {})
    ELSE {}

\* C1: the catalog and the AUR search cache are assigned only by steps of
\* the control thread, never by a step of a load, update or search thread.
C1_OnlyControlThreadWrites ==
    [][(packages' # packages \/ aur_search_cache' # aur_search_cache)
          => last_op' \in ControlThreadOps]_vars

\* C2: when update_list delivers the last result of overlapping full loads,
\* the catalog becomes the list built by the load that was started last.
C2_LastStartedLoadWins ==
    [][(update_list /\ LoadIdsIn(threads, Tail(idle)) = {} /\ latest_pkgs # None)
          => packages' = latest_pkgs[1]]_vars

\* C3: whenever a command of run_cmd has exited, with status 0 or not,
\* update_package_status runs later on.
C3_EveryExitIsReconciled ==
    (last_op = "on_child_exited") ~> (last_op = "update_package_status")

\* C4: a reconciliation pass one of whose installed-set queries fails ends
\* there: it queues load_packages and patches nothing.
C4_FailedQueryFallsBackToReload ==
    [][\A t \in BagToSet(threads), f \in UpdateFaults \ {"none"} :
          update_query(t, f)
              => /\ idle' = Append(idle, Msg("load_packages", <<>>, 0))
                 /\ threads' = threads (-) One(t)]_vars

\* C5: on every page reached with Load more the rows of the list are the
\* first (current_page + 1) * page_size records of the ranked list, in rank
\* order, and once has_more is false they are the whole ranked list.
C5_PaginationCovers ==
    LET ranked == Filtered(packages, current_tab, search_text, fuzzy_threshold)
        shown == SelectSeq(rows, IsPackageRow)
    IN  /\ Len(shown) <= Len(ranked)
        /\ shown = SubSeq(ranked, 1, Len(shown))
        /\ has_more => Len(shown) = (current_page + 1) * page_size
        /\ ~has_more => shown = ranked

\* Load more was pressed twice and the last page has been rendered
C5_Witness ==
    /\ current_page >= 2
    /\ ~has_more
    /\ Len(SelectSeq(rows, IsPackageRow)) >= 3

\* C6 as stated: after a merge whose hits name an installed AUR record, the
\* catalog holds exactly one record with that name, and it is installed.
C6_OneRecordPerName ==
    [][merge_aur_search_results
          => \A i \in 1..Len(Head(idle).arg) :
                LET n == Head(idle).arg[i][1]
                    same == SelectSeq(packages', LAMBDA p : p[1] = n)
                IN  (\E j \in 1..Len(packages) :
                        packages[j][4] = "aur" /\ packages[j][3] /\ packages[j][1] = n)
                    => Len(same) = 1 /\ same[1][3]]_vars

\* C6, amended: after a merge whose hits name an installed AUR record, the
\* catalog holds exactly one AUR record with that name, and it is installed.
C6_OneAurRecordPerName ==
    [][merge_aur_search_results
          => \A i \in 1..Len(Head(idle).arg) :
                LET n == Head(idle).arg[i][1]
                    same == SelectSeq(packages', LAMBDA p : p[1] = n /\ p[4] = "aur")
                IN  (\E j \in 1..Len(packages) :
                        packages[j][4] = "aur" /\ packages[j][3] /\ packages[j][1] = n)
                    => Len(same) = 1 /\ same[1][3]]_vars

\* a merge has just run whose hits named an installed AUR record of the catalog
C6_Witness ==
    /\ last_op = "merge_aur_search_results"
    /\ \E i \in 1..Len(last_hits), j \in 1..Len(packages) :
          /\ packages[j][4] = "aur" /\ packages[j][3]
          /\ packages[j][1] = last_hits[i][1]
          /\ last_hits[i][3]

\* C7: a pass that finds the installed sets as the catalog's flags have
\* them leaves the catalog as it is.
C7_UnchangedSetsNoFlapping ==
    [][\A t \in BagToSet(threads) :
          (/\ update_write(t)
           /\ packages = UpdatedPackages(packages, t.iaur, t.ip, t.efp))
              => packages' = packages]_vars

\* C8: the catalog a pass writes, all of whose queries succeeded, flags
\* every record by membership of its key in the set the pass queried for
\* the record's source.
C8_FlagsMatchFreshSets ==
    [][\A t \in BagToSet(threads) :
          (update_write(t) /\ t.fault = "none")
              => \A i \in 1..Len(packages') :
                    LET p == packages'[i]
                    IN  p[3] = IF p[4] = "aur" THEN p[1] \in t.iaur
                               ELSE IF p[4] = "flatpak" THEN p[5] \in t.ifp
                               ELSE p[1] \in t.ip]_vars

\* C9: a merge leaves the catalog without its uninstalled AUR records,
\* followed by the hits whose name none of the remaining records has; every
\* uninstalled AUR record of the result is one of the hits.
C9_MergeDropsStaleAppendsNew ==
    [][merge_aur_search_results
          => LET hits == Head(idle).arg
                 remaining == SelectSeq(packages,
                                  LAMBDA p : ~(p[4] = "aur" /\ ~p[3]))
                 fresh == SelectSeq(hits,
                              LAMBDA h : \A j \in 1..Len(remaining) : remaining[j][1] # h[1])
             IN  /\ packages' = remaining \o fresh
                 /\ \A j \in 1..Len(packages') :
                       (packages'[j][4] = "aur" /\ ~packages'[j][3])
                           => \E i \in 1..Len(hits) : hits[i] = packages'[j]]_vars

\* a merge has just run that appended one hit and skipped another, after
\* two terms had been searched
C9_Witness ==
    /\ last_op = "merge_aur_search_results"
    /\ Cardinality(searched) >= 2
    /\ \E i \in 1..Len(last_hits), j \in 1..Len(packages) :
          ~last_hits[i][3] /\ packages[j] = last_hits[i]
    /\ \E i \in 1..Len(last_hits) : last_hits[i][3]

C11_SearchOpensAllAndMerges ==
    [][/\ (last_op' = "on_search_changed" /\ Strip(search_text') # <<>>)
          => /\ current_tab' = "all"
             /\ AurOn => threads' = threads (+)
                             One(Thread("search", "refresh", Strip(search_text'), 0))
       /\ \A t \in BagToSet(threads) :
             (t.kind = "search" /\ threads' = threads (-) One(t))
                => /\ Len(idle') = Len(idle) + 1
                   /\ idle'[Len(idle')].fn = "merge_aur_search_results"]_vars

\* C12: a full load one of whose sources fails (the listing of the
\* repositories, of Flathub or of the AUR helper) still hands a catalog to
\* update_list: the records of the other sources, none of the failed one.
C12_FailedSourceDoesNotAbortLoad ==
    [][\A t \in BagToSet(threads), f \in {"pacman-Sl", "flatpak", "aur"} :
          load_fetch(t, f)
             => \E u \in BagToSet(threads') :
                   /\ u.kind = "load" /\ u.pc = "publish" /\ u.id = t.id
                   /\ u.pkgs = (IF f = "pacman-Sl" THEN <<>>
                                ELSE LoadPacman(env_pacman, "none"))
                             \o (IF f = "flatpak" THEN <<>>
                                 ELSE LoadFlatpak(env_flatpak, "none"))
                             \o (IF f = "aur" THEN <<>>
                                 ELSE LoadAur(env_aur, "none", AurOn))]_vars

\* C13: a change of the search text or of the tab leaves current_page at 0
\* and the current list box with the page-0 slice of the new ranked list
\* only (or the empty-state row): no row rendered before is left in it.
C13_ChangeResetsPage ==
    [][last_op' \in {"on_search_changed", "on_stack_changed"}
          => /\ current_page' = 0
             /\ rows' = IF filtered_packages' = <<>> THEN <<EmptyStateRow>>
                        ELSE SubSeq(filtered_packages', 1,
                                    Min(page_size, Len(filtered_packages')))]_vars

\* the tab was changed, after a search, away from a list that had a second
\* page rendered
C13_Witness ==
    /\ last_op = "on_stack_changed"
    /\ n_searches >= 1
    /\ current_page = 0
    /\ ShowsPackages(rows)
    /\ \E t \in Tabs : Len(stale[t]) >= 2 /\ page_size = 1

\* C14: with an empty search text the ranked list is the subsequence, in
\* catalog order, of the records the tab selects: installed pacman records
\* (installed), installed Flatpak records (flatpak), every AUR record (aur),
\* every record that is not installed (available), every record (all).
C14_EmptySearchKeepsCatalogOrder ==
    search_text = <<>>
       => filtered_packages =
             SelectSeq(packages,
                LAMBDA p :
                   CASE current_tab = "installed" -> p[3] /\ p[4] = "pacman"
                     [] current_tab = "flatpak"   -> p[3] /\ p[4] = "flatpak"
                     [] current_tab = "aur"       -> p[4] = "aur"
                     [] current_tab = "available" -> ~p[3]
                     [] current_tab = "all"       -> TRUE)

\* the AUR tab, with an empty search text, lists an installed and an
\* uninstalled AUR record behind records of other sources in the catalog
C14_Witness ==
    /\ search_text = <<>>
    /\ current_tab = "aur"
    /\ Len(filtered_packages) >= 2
    /\ Len(filtered_packages) < Len(packages)
    /\ \E i, j \in 1..Len(filtered_packages) :
          filtered_packages[i][3] /\ ~filtered_packages[j][3]

\* C15: for a non-empty search text every record of the tab whose
\* lowercased name contains the lowercased text is in the ranked list with
\* score 1.0, whatever the threshold, and no record that matched by
\* similarity only is ranked before it.
C15_SubstringScoresOneAndRanksFirst ==
    LET text == Lower(search_text)
        contains(n) == \E k \in 0..(Len(n) - Len(text)) :
                          SubSeq(Lower(n), k + 1, k + Len(text)) = text
        candidate(p) == CASE current_tab = "installed" -> p[3] /\ p[4] = "pacman"
                          [] current_tab = "flatpak"   -> p[3] /\ p[4] = "flatpak"
                          [] current_tab = "aur"       -> p[4] = "aur"
                          [] current_tab = "available" -> ~p[3]
                          [] current_tab = "all"       -> TRUE
        ranked == SortByScore(MatchesWithScores(packages, current_tab, search_text,
                                                fuzzy_threshold))
        expected == SelectSeq(packages, LAMBDA p : candidate(p) /\ contains(p[1]))
    IN  search_text # <<>>
           => /\ filtered_packages = [i \in 1..Len(ranked) |-> ranked[i][1]]
              /\ SelectSeq(ranked, LAMBDA x : contains(x[1][1]))
                    = [i \in 1..Len(expected) |-> <<expected[i], <<1, 1>>>>]
              /\ \A i, j \in 1..Len(ranked) :
                    (contains(ranked[i][1][1]) /\ ~contains(ranked[j][1][1])) => i < j

\* a search lists a record that matched by similarity only behind three
\* records that contain the text, the first record of the catalog last
C15_Witness ==
    /\ search_text # <<>>
    /\ Len(filtered_packages) >= 4
    /\ filtered_packages[Len(filtered_packages)] = packages[1]
    /\ ~IsSubstring(Lower(search_text), Lower(packages[1][1]))
    /\ IsSubstring(Lower(search_text), Lower(filtered_packages[3][1]))

C17_RankedByScoreStable ==
    LET score(p) == fuzzy_match(search_text, p[1], fuzzy_threshold)[2]
        index(p) == CHOOSE i \in 1..Len(packages) : packages[i] = p
        matches == MatchesWithScores(packages, current_tab, search_text, fuzzy_threshold)
    IN  /\ Len(filtered_packages) = Len(matches)
        /\ \A i \in 1..Len(matches) :
              \E j \in 1..Len(filtered_packages) : filtered_packages[j] = matches[i][1]
        /\ \A i, j \in 1..Len(filtered_packages) :
              i < j => LET x == score(filtered_packages[i])
                           y == score(filtered_packages[j])
                       IN  /\ x[1] * y[2] >= y[1] * x[2]
                           /\ x[1] * y[2] = y[1] * x[2]
                                 => index(filtered_packages[i]) < index(filtered_packages[j])

\* a ranked list of four records in which two records tie below 1.0 and a
\* record that stands between them in the catalog is ranked before both
C17_Witness ==
    /\ Len(filtered_packages) >= 4
    /\ \E i, j \in 1..Len(filtered_packages) :
          LET x == fuzzy_match(search_text, filtered_packages[i][1], fuzzy_threshold)[2]
              y == fuzzy_match(search_text, filtered_packages[j][1], fuzzy_threshold)[2]
          IN  /\ i < j
              /\ x[1] * y[2] = y[1] * x[2]
              /\ x[1] < x[2]
    /\ filtered_packages # SelectSeq(packages,
           LAMBDA p : \E i \in 1..Len(filtered_packages) : filtered_packages[i] = p)

\* C18: a refresh with an empty search text that finds the catalog and the
\* tab as the refresh before it left them yields the same ranked list.
C18_FilterIsRepeatable ==
    [][(/\ search_text = <<>> /\ search_text' = <<>>
        /\ packages' = packages
        /\ current_tab' = current_tab)
          => filtered_packages' = filtered_packages]_vars

\* the list was filtered again, for a further page, with an empty search
\* text and at least three records in it
C18_Witness ==
    /\ last_op = "load_more_packages"
    /\ search_text = <<>>
    /\ current_page >= 1
    /\ Len(filtered_packages) >= 3

\* C19: no step of the main thread waits for an external command.
C19_ControlThreadNeverWaits ==
    [][last_op' \in ControlThreadOps => ControlWaitsFor' = {}]_vars

\* C20: the write of a reconciliation pass leaves the catalog with the
\* records it had, in their order, each with its name, origin label, source
\* kind and install key; only installed flags differ.
C20_PassChangesOnlyFlags ==
    [][\A t \in BagToSet(threads) :
          update_write(t)
             => /\ Len(packages') = Len(packages)
                /\ \A i \in 1..Len(packages) :
                      /\ Len(packages'[i]) = Len(packages[i])
                      /\ \A k \in (1..Len(packages[i])) \ {3} :
                            packages'[i][k] = packages[i][k]]_vars

(* ------------------------------------------------------------------ *)
(* The catalog under full loads, AUR merges and reconciliation passes   *)
(* ------------------------------------------------------------------ *)

\* the user types Ab, with or without a trailing blank
UserSearchesAb ==
    \E text \in {s_Ab, s_Ab_sp} : on_search_changed(text)

\* a search thread none of whose commands fails
SearchThreadOk ==
    \/ \E t \in BagToSet(threads) : search_refresh(t, "ok")
    \/ \E t \in BagToSet(threads) : search_hit(t)
    \/ \E t \in BagToSet(threads) : search_cached(t)
    \/ \E t \in BagToSet(threads) : search_external(t, "ok")

\* a pass whose queries succeed, or whose `pacman -Q` fails so that the
\* handler of line 1348 queues a full load
UpdateThreadOrReload ==
    \/ \E t \in BagToSet(threads), f \in {"none", "pacman"} : update_query(t, f)
    \/ \E t \in BagToSet(threads) : update_compute(t)
    \/ \E t \in BagToSet(threads) : update_write(t)

\* the command in the terminal does its work and exits 0
CommandApplied ==
    \E c \in BagToSet(children) : on_child_exited(c, 0, TRUE)

\* the first load has been delivered; the repository and Flatpak packages
\* are installed, the AUR package abc may be; the user is on the all or the
\* flatpak tab, whose first row is selected
CatalogInit ==
    \E tab \in {"all", "flatpak"}, ea \in {AurNames, {s_bc}} :
        PageStart(RepoNames, FlatpakIds, ea, tab, <<>>, 40, MaxPageSize)

CatalogNext ==
    \/ UserSearchesAb
    \/ SearchThreadOk
    \/ merge_aur_search_results
    \/ handle_package_action
    \/ CommandApplied
    \/ update_package_status
    \/ UpdateThreadOrReload
    \/ idle_refresh_list
    \/ load_packages
    \/ LoadThreadOk
    \/ update_list

CatalogSpec ==
    CatalogInit /\ [][CatalogNext]_vars

\* C21: in every reachable catalog, whatever full loads, AUR merges and
\* reconciliation passes produced it, every record whose source kind is
\* flatpak has a fifth field, the install key, and that key is not empty
C21_FlatpakRecordsCarryInstallKey ==
    \A i \in 1..Len(packages) :
        (Len(packages[i]) > 3 /\ packages[i][4] = "flatpak")
            => (Len(packages[i]) > 4 /\ packages[i][5] # "")

\* a pass has just written the catalog after a reload was started and a
\* merge appended a search hit; the Flatpak record it rebuilt is the one the
\* command removed
C21_Witness ==
    /\ last_op = "update_write"
    /\ latest_id > 0
    /\ \E i \in 1..Len(packages) : packages[i][4] = "aur" /\ ~packages[i][3]
    /\ \E i \in 1..Len(packages) :
        /\ packages[i][4] = "flatpak"
        /\ ~packages[i][3]
        /\ Len(packages[i]) > 4

(* ------------------------------------------------------------------ *)
(* Listings in which a name occurs twice                                *)
(* ------------------------------------------------------------------ *)

\* `pacman -Sl` with a testing repository enabled: the package is listed
\* once for every repository that holds it
RepoListingTwoRepos ==
    << <<"testing", s_ab>>, <<"core", s_ab>> >>

\* `flatpak remote-ls --app flathub` with two applications that have the
\* same display name
FlathubListingSameName ==
    << <<s_bc, "org.bc">>, <<s_bc, "com.bc">> >>

\* the first load has been delivered from one of these listings, with
\* everything of RepoNames, FlatpakIds and AurNames installed
ListingInit ==
    \E pl \in {RepoListing, RepoListingTwoRepos},
       fl \in {FlathubListing, FlathubListingSameName} :
        /\ StartWith(PacmanRecords(pl, RepoNames) \o FlatpakRecords(fl, FlatpakIds)
                         \o LoadAur(AurNames, "none", TRUE),
                     RepoNames, FlatpakIds, AurNames, "all", <<>>, 40, MaxPageSize)
        /\ pacman_conf = DefaultConf

ListingSpec ==
    ListingInit /\ [][CatalogNext]_vars

\* C22: in every reachable catalog no two records of the same source kind
\* have the same name
C22_NameUniqueWithinSource ==
    \A i, j \in 1..Len(packages) :
        (i < j /\ packages[i][4] = packages[j][4]) => packages[i][1] # packages[j][1]

(* ------------------------------------------------------------------ *)
(* refresh_list with nothing to list                                    *)
(* ------------------------------------------------------------------ *)

\* lines 1735-1738 and 2131-2134: the status text of the installed tab
\* needs get_total_package_sizes, which runs `pacman -Qi` with check=True
\* and is called outside any try; when the command fails the exception
\* leaves refresh_list
RefreshRaises(tab, text, qi_ok) ==
    text = <<>> /\ tab = "installed" /\ ~qi_ok

\* on_stack_changed, lines 600-606, when `pacman -Qi` fails: refresh_list
\* has cleared the list box, appended the rows and set the button (lines
\* 1658-1724) when the exception is raised at line 1737; the status text
\* and the selection of the first row (lines 1771-1775) are skipped
on_stack_changed_raising(tab) ==
    LET r == Refresh(packages, tab, 0, search_text, fuzzy_threshold, selected, aur_count)
    IN  /\ tab # current_tab
        /\ RefreshRaises(tab, search_text, FALSE)
        /\ current_tab' = tab
        /\ current_page' = 0
        /\ filtered_packages' = r.filtered
        /\ rows' = r.rows
        /\ stale' = [stale EXCEPT ![current_tab] = rows, ![tab] = <<>>]
        /\ has_more' = r.has_more
        /\ selected' = IF ShowsPackages(stale[tab]) THEN None ELSE selected
        /\ Len(r.rows) <= MaxRows
        /\ last_op' = "refresh_list_raised"
        /\ UNCHANGED <<env_vars, aur_enabled, grimaur_ok, packages, page_size, search_text,
                       fuzzy_threshold, installed_aur, aur_search_cache, aur_count,
                       threads, idle, children, timers, hist_vars>>
        /\ UNCHANGED pacman_conf

\* nothing is installed; the catalog is empty (the first load has not been
\* delivered, or `pacman -Sl` failed) or holds what a full load lists
EmptyInit ==
    \E loaded \in {<<>>, LoadResult({}, {}, {}, "none", TRUE)}, ps \in 1..MaxPageSize :
        /\ StartWith(loaded, {}, {}, {}, "all", <<>>, 40, ps)
        /\ pacman_conf = DefaultConf

EmptyNext ==
    \/ UserSearches
    \/ UserChangesTab
    \/ load_more_packages
    \/ on_stack_changed_raising("installed")

EmptySpec ==
    EmptyInit /\ [][EmptyNext]_vars

\* C23: a refresh_list that finds nothing to list, the catalog or the
\* candidate subset being empty, does not raise, leaves the filtered result
\* empty and the Load-more button insensitive, and shows the empty-state row
C23_EmptyRefreshCompletes ==
    [][(/\ last_op' \in {"on_search_changed", "on_stack_changed", "load_more_packages",
                         "on_fuzzy_threshold_changed", "update_list",
                         "merge_aur_search_results", "refresh_list",
                         "refresh_list_raised"}
        /\ filtered_packages' = <<>>)
        => /\ last_op' # "refresh_list_raised"
           /\ ~has_more'
           /\ EmptyStateRow \in Range(rows')]_vars

(* ------------------------------------------------------------------ *)
(* Freezing packages: the handlers that edit /etc/pacman.conf           *)
(* ------------------------------------------------------------------ *)

\* everything but the configuration file and last_op
app_vars ==
    <<env_vars, aur_enabled, grimaur_ok, packages, page_size, installed_aur,
      aur_search_cache, threads, idle, children, timers, view_vars, hist_vars>>

\* toggle_package_freeze, lines 2347-2381, for the button the package dialog
\* shows when the selected record is an installed pacman package (line
\* 2243).  `io_ok` is false when the file cannot be read or written: the
\* function returns False and the handler shows an error.
toggle_package_freeze(io_ok) ==
    /\ selected # None
    /\ selected[3] /\ selected[4] = "pacman"
    /\ pacman_conf' =
          IF ~io_ok THEN pacman_conf
          ELSE IF is_in_ignorepkg(pacman_conf, selected[1])
               THEN remove_from_ignorepkg(pacman_conf, selected[1])
               ELSE add_to_ignorepkg(pacman_conf, selected[1])
    /\ last_op' = IF io_ok THEN "toggle_package_freeze" ELSE "show_error"
    /\ UNCHANGED app_vars

\* handle_add_ignorepkg, lines 2709-2716
handle_add_ignorepkg(package_name, io_ok) ==
    /\ pacman_conf' = IF io_ok THEN add_to_ignorepkg(pacman_conf, package_name)
                      ELSE pacman_conf
    /\ last_op' = IF io_ok THEN "handle_add_ignorepkg" ELSE "show_error"
    /\ UNCHANGED app_vars

\* handle_remove_ignorepkg, lines 2718-2725
handle_remove_ignorepkg(package_name, io_ok) ==
    /\ pacman_conf' = IF io_ok THEN remove_from_ignorepkg(pacman_conf, package_name)
                      ELSE pacman_conf
    /\ last_op' = IF io_ok THEN "handle_remove_ignorepkg" ELSE "show_error"
    /\ UNCHANGED app_vars

\* the window shows the installed tab with the pacman package ab selected;
\* the file has one of the contents of ConfFiles
ConfInit ==
    \E conf \in ConfFiles :
        /\ StartWith(LoadResult(RepoNames, FlatpakIds, AurNames, "none", TRUE),
                     RepoNames, FlatpakIds, AurNames, "installed", <<>>, 40, MaxPageSize)
        /\ pacman_conf = conf

ConfNext ==
    \/ \E io_ok \in BOOLEAN : toggle_package_freeze(io_ok)
    \/ \E p \in FreezeNames, io_ok \in BOOLEAN : handle_add_ignorepkg(p, io_ok)
    \/ \E p \in FreezeNames, io_ok \in BOOLEAN : handle_remove_ignorepkg(p, io_ok)

ConfSpec ==
    ConfInit /\ [][ConfNext]_vars

\* a step in which add_to_ignorepkg(p) ran and returned True
AddReturnedTrue(p) ==
    \/ handle_add_ignorepkg(p, TRUE)
    \/ /\ toggle_package_freeze(TRUE)
       /\ selected[1] = p
       /\ ~is_in_ignorepkg(pacman_conf, p)

\* a step in which remove_from_ignorepkg(p) ran and returned True
RemoveReturnedTrue(p) ==
    \/ handle_remove_ignorepkg(p, TRUE)
    \/ /\ toggle_package_freeze(TRUE)
       /\ selected[1] = p
       /\ is_in_ignorepkg(pacman_conf, p)

\* C24: once add_to_ignorepkg(p) has returned True, is_in_ignorepkg(p) is
\* true, whatever the file held before, and adding p again leaves the file
\* as it is
C24_AddThenIsIn ==
    [][\A p \in FreezeNames :
        AddReturnedTrue(p)
            => /\ is_in_ignorepkg(pacman_conf', p)
               /\ add_to_ignorepkg(pacman_conf', p) = pacman_conf']_vars

\* C25: once remove_from_ignorepkg(p) has returned True, is_in_ignorepkg(p)
\* is false, is_in_ignorepkg(q) is what it was for every other q, and the
\* lines that are not active IgnorePkg lines are the ones the file had
C25_RemoveFrame ==
    [][\A p \in FreezeNames :
        RemoveReturnedTrue(p)
            => /\ ~is_in_ignorepkg(pacman_conf', p)
               /\ \A q \in FreezeNames \ {p} :
                    is_in_ignorepkg(pacman_conf', q) = is_in_ignorepkg(pacman_conf, q)
               /\ SelectSeq(pacman_conf', LAMBDA line : ~IsActiveIgnorePkg(line))
                    = SelectSeq(pacman_conf, LAMBDA line : ~IsActiveIgnorePkg(line))]_vars

\* bc has just been removed from a file whose two active lines named it:
\* the first is rewritten with ab alone, the second is gone
C25_Witness ==
    /\ last_op = "handle_remove_ignorepkg"
    /\ pacman_conf = <<l_options, IgnoreLine(<<s_ab>>), l_core>>

(* ------------------------------------------------------------------ *)
(* The rendered rows                                                    *)
(* ------------------------------------------------------------------ *)

\* C26: the package rows of the current list are the first
\* min((current_page + 1) * page_size, len) records of filtered_packages,
\* in rank order and each once, also after a refresh_list that ran with
\* current_page > 0
C26_RowsArePrefixOfFiltered ==
    SelectSeq(rows, IsPackageRow)
        = Slice(filtered_packages, 0,
                Min((current_page + 1) * page_size, Len(filtered_packages)))

\* C27: the write of a reconciliation pass loses no record that a merge or
\* a full load put into the catalog while the pass was running: every
\* record of the catalog the write replaces, by name and source kind, is in
\* the catalog it assigns
C27_PassKeepsConcurrentChanges ==
    [][\A t \in BagToSet(threads) :
          update_write(t)
             => \A i \in 1..Len(packages) :
                   \E j \in 1..Len(packages') :
                      /\ packages'[j][1] = packages[i][1]
                      /\ packages'[j][4] = packages[i][4]]_vars

(* ------------------------------------------------------------------ *)
(* Two searches in flight                                               *)
(* ------------------------------------------------------------------ *)

\* a system without Flatpak and with no AUR package installed: the first
\* load has been delivered, the window shows the tab of all packages
RaceInit ==
    /\ StartWith(LoadResult(RepoNames, {}, {}, "flatpak", TRUE),
                 RepoNames, {}, {}, "all", <<>>, 40, MaxPageSize)
    /\ pacman_conf = DefaultConf

RaceNext ==
    \/ UserSearches
    \/ SearchThreadOk
    \/ merge_aur_search_results

RaceSpec ==
    RaceInit /\ [][RaceNext]_vars

\* C28: after the search text went from one term to another, both search
\* threads have ended and their merges have run, the AUR records of the
\* catalog that are not installed are the hits of the term in the search
\* entry, whichever thread ended first
C28_LatestSearchWins ==
    LET hits == ParseSearch(s_Ab, installed_aur, "ok")
        settled == /\ \A t \in BagToSet(threads) : t.kind # "search"
                   /\ \A i \in 1..Len(idle) : idle[i].fn # "merge_aur_search_results"
    IN  (settled /\ searched = {s_Ab, s_bc} /\ Strip(search_text) = s_Ab)
            => {packages[i][1] : i \in {k \in 1..Len(packages) :
                                           packages[k][4] = "aur" /\ ~packages[k][3]}}
                 = {hits[i][1] : i \in {k \in 1..Len(hits) : ~hits[k][3]}}

\* C29: when the refresh that follows a reconciliation pass has run, the
\* selected record has the installed flag of the catalog record with its
\* name and source kind, on every page
C29_SelectionFollowsCatalog ==
    (last_op = "refresh_list" /\ selected # None)
        => \A i \in 1..Len(packages) :
              (packages[i][1] = selected[1] /\ packages[i][4] = selected[4])
                  => packages[i][3] = selected[3]

\* C30: search_aur_packages stores a cache entry only when the external
\* search succeeded: after a search that exited non-zero, timed out or
\* raised, the term has no entry, so that the next search of the term runs
\* the external command again
C30_FailedSearchIsNotMemoized ==
    [][\A t \in BagToSet(threads), o \in SearchOutcomes \ {"ok"} :
          search_external(t, o) => t.term \notin DOMAIN aur_search_cache']_vars

====
